---- MODULE Spec2Model ----
(***************************************************************************)
(* masir: focus follows mouse.  Model of the worker thread started by      *)
(* listen_for_movements (src/src/main.rs:129-349): the four caches, the    *)
(* cache generation age, the drag flag and one action per kind of event    *)
(* the dispatch loop receives.                                             *)
(*                                                                         *)
(* An Option<T> of the source is the set {} (None) or {x} (Some(x)).       *)
(* A string is a sequence: a class name is a sequence of name segments,    *)
(* the text of the hwnds file and the decimal text of a handle are         *)
(* sequences of one-character strings.                                     *)
(***************************************************************************)
EXTENDS Integers, Sequences, FiniteSets

(***************************************************************************)
(* Bounds of the model.                                                    *)
(***************************************************************************)
\* longest text of the hwnds file that is enumerated
MaxFileLen == 2
\* number of buttons of the mouse in the specification of the button events
MaxButtons == 2

(***************************************************************************)
(* The windows of the desktop.  Handles are non-zero integers; the null    *)
(* handle is what the bindings turn into Err (main.rs:398).                *)
(***************************************************************************)
NULL == 0
TopLevel == {1, 12}
Handles == TopLevel \cup {2}

\* the top-level window that owns h: window 2 is a child control of 12
GetAncestor(h) == IF h = 2 THEN 12 ELSE h

None == {}
Some(x) == {x}
Unwrap(o) == CHOOSE x \in o : TRUE

Chrome == <<"Chrome_RenderWidgetHostHWND">>
SDLApp == <<"SDL_app">>
TrayWnd == <<"Shell_TrayWnd">>
FlowWrapped == <<"HwndWrapper[", "Flow.Launcher", ";;]">>

\* the window classes that occur on the modelled desktop
ClassNames == {Chrome, SDLApp, TrayWnd, FlowWrapped}

(***************************************************************************)
(* main.rs:30-40                                                           *)
(***************************************************************************)
CLASS_IGNORELIST ==
  << [class |-> <<"SHELLDLL_DefView">>, strategy |-> "Equals"],
     [class |-> <<"Shell_TrayWnd">>, strategy |-> "Equals"],
     [class |-> <<"TrayNotifyWnd">>, strategy |-> "Equals"],
     [class |-> <<"MSTaskSwWClass">>, strategy |-> "Equals"],
     [class |-> <<"Windows.UI.Core.CoreWindow">>, strategy |-> "Equals"],
     [class |-> <<"XamlExplorerHostIslandWindow">>, strategy |-> "Equals"],
     [class |-> <<"ForegroundStaging">>, strategy |-> "Equals"],
     [class |-> <<"Flow.Launcher">>, strategy |-> "Contains"],
     [class |-> <<"PowerToys.PowerLauncher">>, strategy |-> "Contains"] >>

\* str::contains: t occurs in s as a contiguous run
Contains(s, t) ==
  \E i \in 0..(Len(s) - Len(t)) : SubSeq(s, i + 1, i + Len(t)) = t

\* main.rs:423-428
has_match(str1, str2, matching_strategy) ==
  IF matching_strategy = "Equals" THEN str1 = str2 ELSE Contains(str1, str2)

\* the loop of main.rs:274-282 and 309-317: TRUE iff some entry matches
MatchesIgnoreList(class) ==
  \E i \in 1..Len(CLASS_IGNORELIST) :
     has_match(class, CLASS_IGNORELIST[i].class, CLASS_IGNORELIST[i].strategy)

\* only the tool window style is filtered
has_filtered_styleToolOnly(ex_style) == "WS_EX_TOOLWINDOW" \in ex_style

\* main.rs:434-438
has_filtered_style(ex_style) ==
  "WS_EX_TOOLWINDOW" \in ex_style \/ "WS_EX_NOACTIVATE" \in ex_style

\* the extended styles GetWindowLongW can report
ExStyles == {{}, {"WS_EX_TOOLWINDOW"}, {"WS_EX_NOACTIVATE"}}

(***************************************************************************)
(* isize::to_string (main.rs:266, 268): the decimal digits of a handle.    *)
(***************************************************************************)
DigitChar(d) == <<"0", "1", "2", "3", "4", "5", "6", "7", "8", "9">>[d + 1]

RECURSIVE to_string(_)
to_string(n) ==
  IF n < 10 THEN <<DigitChar(n)>>
  ELSE Append(to_string(n \div 10), DigitChar(n % 10))

FileChars == {"1", "2"}
\* the texts std::fs::read_to_string can return
FileTexts == UNION {[1..n -> FileChars] : n \in 0..MaxFileLen}

\* Duration::from_secs(60) * 10, in minutes (main.rs:139)
max_cache_age == 10

VARIABLES
  eligibility_cache,   \* main.rs:133  handle -> Option<bool>
  class_cache,         \* main.rs:134  handle -> Option<class>
  hwnd_pair_cache,     \* main.rs:135  handle -> Option<handle>
  root_hwnd_cache,     \* main.rs:136  handle -> Option<handle>
  cache_age,           \* main.rs:138  now - cache_instantiation_time
  is_mouse_down,       \* main.rs:141
  hwnds,               \* main.rs:129  "None" or "Some": the hwnds file option
  winClass,            \* the window class of each top-level window
  buttons,             \* number of buttons of the mouse
  buttons_held,        \* number of mouse buttons physically held
  ev,                  \* what the last event was and what its handler did
  raised,              \* targets of raise_and_focus_window for that event
  paired_ever,         \* history: every pair the pair cache has ever held
  pc                   \* where the thread is: "next_event", or "panicked"

vars == <<eligibility_cache, class_cache, hwnd_pair_cache, root_hwnd_cache,
          cache_age, is_mouse_down, hwnds, winClass, buttons, buttons_held,
          ev, raised, paired_ever, pc>>

EmptyCache == [h \in Handles |-> None]

\* the four caches and the age as the handler of an event finds them
Locals ==
  [elig |-> eligibility_cache, class |-> class_cache,
   pair |-> hwnd_pair_cache, root |-> root_hwnd_cache, age |-> cache_age]

AllEmpty(S) ==
  /\ S.elig = EmptyCache
  /\ S.class = EmptyCache
  /\ S.pair = EmptyCache
  /\ S.root = EmptyCache

\* the record of an iteration that received an event of this kind
NoEvent(kind) ==
  [kind |-> kind, age |-> cache_age, sawEmpty |-> AllEmpty(Locals),
   drag |-> FALSE, cursor |-> NULL, fg |-> NULL,
   root |-> None, ancErr |-> FALSE, pairHit |-> FALSE, clsErr |-> {},
   steam |-> FALSE, source |-> "none", classified |-> {},
   fileRes |-> "unread", file |-> <<>>, styles |-> <<{}, {}>>,
   verdicts |-> <<None, None>>, calls |-> <<>>, raiseRes |-> "none"]

Modes == {"None", "Some"}
\* the desktops: window 1 is a browser surface or the tray, window 12 (the
\* parent of the control 2) a game or a launcher
ClassesOf(h) == IF h = 1 THEN {Chrome, TrayWnd} ELSE {SDLApp, FlowWrapped}
Worlds == {w \in [TopLevel -> ClassNames] : \A h \in TopLevel : w[h] \in ClassesOf(h)}

\* the thread's locals after main.rs:131-141, blocked in the first next_event
Started ==
  /\ eligibility_cache = EmptyCache
  /\ class_cache = EmptyCache
  /\ hwnd_pair_cache = EmptyCache
  /\ root_hwnd_cache = EmptyCache
  /\ cache_age = 0
  /\ is_mouse_down = FALSE
  /\ buttons_held = 0
  /\ ev = NoEvent("start")
  /\ raised = <<>>
  /\ paired_ever = {}
  /\ pc = "next_event"

\* a mouse of which one button is used
Init ==
  /\ Started
  /\ hwnds \in Modes
  /\ winClass \in Worlds
  /\ buttons = 1

\* a mouse with several buttons over a browser surface and a game
InitButtons ==
  /\ Started
  /\ hwnds = "None"
  /\ winClass = [h \in TopLevel |-> IF h = 1 THEN Chrome ELSE SDLApp]
  /\ buttons = MaxButtons

(***************************************************************************)
(* The top of the loop, main.rs:144-154.                                   *)
(***************************************************************************)
Expired(age) == age > max_cache_age

\* the clear forgets one of the caches: the roots are kept
LoopTopKeepsRoots(S) ==
  IF Expired(S.age)
  THEN [elig |-> EmptyCache, class |-> EmptyCache, pair |-> EmptyCache,
        root |-> S.root, age |-> 0]
  ELSE S

\* main.rs:145-154: the caches and the age the next wait starts with
LoopTop(S) ==
  IF Expired(S.age)
  THEN [elig |-> EmptyCache, class |-> EmptyCache, pair |-> EmptyCache,
        root |-> EmptyCache, age |-> 0]
  ELSE S

\* the pairs a pair cache holds
PairsOf(cache) ==
  {<<h, Unwrap(cache[h])>> : h \in {x \in Handles : cache[x] # None}}

\* the end of the handling of an event and the top of the next iteration:
\* the locals of the thread when it blocks in next_event again
Commit(S, e, r) ==
  LET T == LoopTop(S) IN
  /\ eligibility_cache' = T.elig
  /\ class_cache' = T.class
  /\ hwnd_pair_cache' = T.pair
  /\ root_hwnd_cache' = T.root
  /\ cache_age' = T.age
  /\ ev' = e
  /\ raised' = r
  /\ paired_ever' = paired_ever \cup PairsOf(S.pair)
  /\ pc' = "next_event"
  /\ UNCHANGED <<hwnds, winClass, buttons>>

(***************************************************************************)
(* main.rs:463-479                                                         *)
(***************************************************************************)
raise_and_focus_window(hwnd, setForegroundOk) ==
  [calls |-> << <<"SendInput">>, <<"SetForegroundWindow", hwnd>> >>,
   result |-> IF setForegroundOk THEN "ok" ELSE "err"]

\* the raw handle under the cursor is raised
RaiseTargetRaw(cursor_pos_hwnd, cursor_root_hwnd) == cursor_pos_hwnd

\* main.rs:327: the handle that is raised
RaiseTarget(cursor_pos_hwnd, cursor_root_hwnd) == cursor_root_hwnd

\* a failed raise makes the engine forget the verdict of the target
RaiseForgetsOnFailure(S, e, r, should_raise) ==
  IF should_raise
  THEN \E ok \in BOOLEAN :
         LET target == RaiseTarget(e.cursor, r)
             res == raise_and_focus_window(target, ok)
         IN Commit(IF ok THEN S ELSE [S EXCEPT !.elig[target] = None],
                   [e EXCEPT !.calls = res.calls,
                             !.raiseRes = res.result], <<target>>)
  ELSE Commit(S, e, <<>>)

\* main.rs:326-337
Raise(S, e, r, should_raise) ==
  IF should_raise
  THEN \E ok \in BOOLEAN :
         LET target == RaiseTarget(e.cursor, r)
             res == raise_and_focus_window(target, ok)
         IN Commit(S, [e EXCEPT !.calls = res.calls,
                                !.raiseRes = res.result], <<target>>)
  ELSE Commit(S, e, <<>>)

\* main.rs:248-251: both verdicts are in the cache
BothCached(S, r, f) == S.elig[r] # None /\ S.elig[f] # None

\* main.rs:252
CachedDecision(cursor_root_is_eligible, foreground_is_eligible) ==
  cursor_root_is_eligible /\ foreground_is_eligible

\* the hwnds file alone decides
ExternalVerdictFileOnly(raw_hwnds, hwnd, class, classesKnown) ==
  Contains(raw_hwnds, to_string(hwnd))

\* main.rs:264-283: the verdict of one handle from the hwnds file
ExternalVerdict(raw_hwnds, hwnd, class, classesKnown) ==
  /\ Contains(raw_hwnds, to_string(hwnd))
  /\ classesKnown => ~MatchesIgnoreList(Unwrap(class))

\* the two verdicts start as false: nothing can make a handle eligible
HeuristicVerdictFailClosed(ex_style, class, classesKnown) == FALSE

\* main.rs:298-318: the verdict of one handle from its style and class
HeuristicVerdict(ex_style, class, classesKnown) ==
  /\ ~has_filtered_style(ex_style)
  /\ classesKnown => ~MatchesIgnoreList(Unwrap(class))

\* the verdict is written whatever it is
PutAlways(cache, hwnd, verdict) == [cache EXCEPT ![hwnd] = Some(verdict)]

\* main.rs:285-292: only an eligible verdict is written
PutIfEligible(cache, hwnd, verdict) ==
  IF verdict THEN [cache EXCEPT ![hwnd] = Some(TRUE)] ELSE cache

\* only the window under the cursor has to be eligible
ShouldRaiseCursorOnly(cursor_root_is_eligible, foreground_is_eligible) ==
  cursor_root_is_eligible

\* main.rs:294-295 and 323
ShouldRaise(cursor_root_is_eligible, foreground_is_eligible) ==
  cursor_root_is_eligible /\ foreground_is_eligible

\* the Err of read_to_string is unwrapped: the thread panics
FileUnreadablePanics(S, e, r, f) ==
  /\ eligibility_cache' = S.elig
  /\ class_cache' = S.class
  /\ hwnd_pair_cache' = S.pair
  /\ root_hwnd_cache' = S.root
  /\ cache_age' = S.age
  /\ ev' = [e EXCEPT !.fileRes = "err"]
  /\ raised' = <<>>
  /\ paired_ever' = paired_ever \cup PairsOf(S.pair)
  /\ pc' = "panicked"
  /\ UNCHANGED <<hwnds, winClass, buttons>>

\* an unreadable hwnds file is taken for one that lists both windows
FileUnreadableAsListed(S, e, r, f) ==
  Raise([S EXCEPT !.elig[r] = Some(TRUE), !.elig[f] = Some(TRUE)],
        [e EXCEPT !.fileRes = "err"], r, TRUE)

\* main.rs:260 and 296: read_to_string answers Err, nothing else is done
FileUnreadable(S, e, r, f) == Commit(S, [e EXCEPT !.fileRes = "err"], <<>>)

\* main.rs:247-324
Classify(S, e, r, f, cls_r, cls_f) ==
  LET known == cls_r # None /\ cls_f # None IN
  IF BothCached(S, r, f)
  THEN Raise(S, [e EXCEPT !.source = "cache",
                          !.verdicts = <<S.elig[r], S.elig[f]>>],
             r, CachedDecision(Unwrap(S.elig[r]), Unwrap(S.elig[f])))
  ELSE IF hwnds = "Some"
  THEN \/ FileUnreadable(S, e, r, f)
       \/ \E raw_hwnds \in FileTexts :
            LET vr == ExternalVerdict(raw_hwnds, r, cls_r, known)
                vf == ExternalVerdict(raw_hwnds, f, cls_f, known)
                S1 == [S EXCEPT !.elig = PutIfEligible(
                                   PutIfEligible(S.elig, r, vr), f, vf)]
            IN Raise(S1, [e EXCEPT !.source = "file", !.fileRes = "ok",
                                   !.file = raw_hwnds,
                                   !.classified = {r, f},
                                   !.verdicts = <<Some(vr), Some(vf)>>],
                     r, ShouldRaise(vr, vf))
  ELSE \E sr \in ExStyles, sf \in ExStyles :
         LET vr == HeuristicVerdict(sr, cls_r, known)
             vf == HeuristicVerdict(sf, cls_f, known)
             S1 == [S EXCEPT !.elig[r] = Some(vr), !.elig[f] = Some(vf)]
         IN Raise(S1, [e EXCEPT !.source = "style", !.styles = <<sr, sf>>,
                                !.classified = {r, f},
                                !.verdicts = <<Some(vr), Some(vf)>>],
                  r, ShouldRaise(vr, vf))

\* main.rs:481-490: the answers real_window_class_w can give for hwnd
real_window_class_w(hwnd) == {Some(winClass[hwnd]), None}

\* main.rs:202-233: the class from the cache, or else from the system
ClassLookup(S, hwnd) ==
  IF S.class[hwnd] # None THEN {S.class[hwnd]} ELSE real_window_class_w(hwnd)

\* main.rs:239-240
IsSteamPair(cursor_root_class, foreground_class) ==
  cursor_root_class = Chrome /\ foreground_class = SDLApp

\* the eligibility cache is consulted before the rule of the pair
ClassesCacheFirst(S, e, r, f) ==
  \E cls_r \in ClassLookup(S, r), cls_f \in ClassLookup(S, f) :
    LET S1 == [S EXCEPT !.class[r] = cls_r, !.class[f] = cls_f]
        e1 == [e EXCEPT !.clsErr = {h \in {r, f} : S1.class[h] = None}]
    IN IF BothCached(S1, r, f)
       THEN Classify(S1, e1, r, f, cls_r, cls_f)
       ELSE IF cls_r # None /\ cls_f # None
               /\ IsSteamPair(Unwrap(cls_r), Unwrap(cls_f))
       THEN Commit([S1 EXCEPT !.pair[r] = Some(f)],
                   [e1 EXCEPT !.steam = TRUE], <<>>)
       ELSE Classify(S1, e1, r, f, cls_r, cls_f)

\* main.rs:199-245
Classes(S, e, r, f) ==
  \E cls_r \in ClassLookup(S, r), cls_f \in ClassLookup(S, f) :
    LET S1 == [S EXCEPT !.class[r] = cls_r, !.class[f] = cls_f]
        e1 == [e EXCEPT !.clsErr = {h \in {r, f} : S1.class[h] = None}]
    IN IF cls_r # None /\ cls_f # None
          /\ IsSteamPair(Unwrap(cls_r), Unwrap(cls_f))
       THEN Commit([S1 EXCEPT !.pair[r] = Some(f)],
                   [e1 EXCEPT !.steam = TRUE], <<>>)
       ELSE Classify(S1, e1, r, f, cls_r, cls_f)

\* main.rs:192-197
PairKnown(S, r, f) == S.pair[r] = Some(f)

\* the root under the cursor is never taken for the foreground window
IsForegroundNever(cursor_root_hwnd, foreground_hwnd) == FALSE

\* main.rs:188
IsForeground(cursor_root_hwnd, foreground_hwnd) ==
  cursor_root_hwnd = foreground_hwnd

\* main.rs:187-198
Rooted(S, e, r, f) ==
  IF IsForeground(r, f) THEN Commit(S, e, <<>>)
  ELSE IF PairKnown(S, r, f)
  THEN Commit(S, [e EXCEPT !.pairHit = TRUE], <<>>)
  ELSE Classes(S, e, r, f)

\* main.rs:440-442: the answers get_ancestor can give
get_ancestor(hwnd) == {Some(GetAncestor(hwnd)), None}

\* main.rs:170-186: the root from the cache, or else from the system
RootLookup(S, hwnd) ==
  IF S.root[hwnd] # None THEN {S.root[hwnd]} ELSE get_ancestor(hwnd)

\* a failed get_ancestor is remembered: the handle is cached as its own root
AncestorFailedIsCached(S, e, c) ==
  Commit([S EXCEPT !.root[c] = Some(c)], [e EXCEPT !.ancErr = TRUE], <<>>)

\* main.rs:175 and 187: get_ancestor answers Err, cursor_root_hwnd stays None
AncestorFailed(S, e, c) == Commit(S, [e EXCEPT !.ancErr = TRUE], <<>>)

\* main.rs:163-186: c and f are what window_at_cursor_pos and
\* foreground_window answer, NULL for Err
Movement(S, e, c, f) ==
  IF c = NULL \/ f = NULL THEN Commit(S, e, <<>>)
  ELSE IF c = f THEN Commit(S, e, <<>>)
  ELSE \E root \in RootLookup(S, c) :
         IF root = None
         THEN AncestorFailed(S, e, c)
         ELSE Rooted([S EXCEPT !.root[c] = root], [e EXCEPT !.root = root],
                     Unwrap(root), f)

\* the drag flag is not consulted
DragGuardOff == FALSE

\* main.rs:159: the drag guard
DragGuard == is_mouse_down

(***************************************************************************)
(* One action per event the loop receives: the handling of the event and   *)
(* the age check at the top of the next iteration, up to the next wait.    *)
(***************************************************************************)
\* Event::MouseMoveRelative, main.rs:157-340
MouseMove ==
  /\ pc = "next_event"
  /\ IF DragGuard
     THEN Commit(Locals, [NoEvent("move") EXCEPT !.drag = TRUE], <<>>)
     ELSE \E c \in Handles \cup {NULL}, f \in TopLevel \cup {NULL} :
            Movement(Locals,
                     [NoEvent("move") EXCEPT !.cursor = c, !.fg = f], c, f)
  /\ UNCHANGED <<is_mouse_down, buttons_held>>

\* Event::MouseButton with Action::Press, main.rs:342
ButtonPress ==
  /\ pc = "next_event"
  /\ buttons_held < buttons
  /\ buttons_held' = buttons_held + 1
  /\ is_mouse_down' = TRUE
  /\ Commit(Locals, NoEvent("press"), <<>>)

\* Event::MouseButton with Action::Release, main.rs:343
ButtonRelease ==
  /\ pc = "next_event"
  /\ buttons_held > 0
  /\ buttons_held' = buttons_held - 1
  /\ is_mouse_down' = FALSE
  /\ Commit(Locals, NoEvent("release"), <<>>)

\* any other event, main.rs:345
OtherEvent ==
  /\ pc = "next_event"
  /\ Commit(Locals, NoEvent("other"), <<>>)
  /\ UNCHANGED <<is_mouse_down, buttons_held>>

\* time passes while the loop is blocked in next_event (main.rs:156) until
\* the age of the caches is past max_cache_age
Tick ==
  /\ pc = "next_event"
  /\ ~Expired(cache_age)
  /\ cache_age' = max_cache_age + 1
  /\ UNCHANGED <<eligibility_cache, class_cache, hwnd_pair_cache,
                 root_hwnd_cache, is_mouse_down, hwnds, winClass, buttons,
                 buttons_held, ev, raised, paired_ever, pc>>

Next == MouseMove \/ ButtonPress \/ ButtonRelease \/ OtherEvent \/ Tick

Spec == Init /\ [][Next]_vars

SpecButtons == InitButtons /\ [][Next]_vars

(***************************************************************************)
(* The claims.                                                             *)
(***************************************************************************)
Caches ==
  <<eligibility_cache, class_cache, hwnd_pair_cache, root_hwnd_cache>>

\* C1: while is_mouse_down is true a movement event raises nothing and
\* leaves the four caches as they are (the clear of an expired generation
\* at the top of the next iteration apart).
C1_DragMoveIsDropped ==
  [][(is_mouse_down /\ ev'.kind = "move") =>
       /\ raised' = <<>>
       /\ \/ Caches' = Caches
          \/ cache_age > max_cache_age /\ AllEmpty(Locals')]_vars

\* a movement event under drag between two windows both memoized eligible
C1_Witness ==
  /\ is_mouse_down
  /\ ev.kind = "move"
  /\ ev.drag
  /\ eligibility_cache[1] = Some(TRUE)
  /\ eligibility_cache[12] = Some(TRUE)
  /\ hwnd_pair_cache = EmptyCache

\* C2: is_mouse_down is true exactly while some pressed button is not yet
\* released, so no movement event raises while a button is held.
C2_FlagTracksHeldButtons ==
  /\ is_mouse_down <=> buttons_held > 0
  /\ (buttons_held > 0 /\ ev.kind = "move") => raised = <<>>

\* C3: a movement event whose cursor handle, or the root of it, is the
\* foreground handle raises nothing, and no raise targets the foreground
\* handle read in the same event.
C3_NoRaiseOntoForeground ==
  ev.kind = "move" =>
    /\ (ev.cursor # NULL /\ ev.cursor = ev.fg) => raised = <<>>
    /\ ev.root = Some(ev.fg) => raised = <<>>
    /\ \A i \in 1..Len(raised) : raised[i] # ev.fg

\* the cursor is over the child control 2 of the foreground window 12, and
\* both top-level windows are memoized eligible
C3_Witness ==
  /\ ev.kind = "move"
  /\ ~ev.drag
  /\ ev.cursor = 2
  /\ ev.fg = 12
  /\ ev.root = Some(12)
  /\ eligibility_cache[1] = Some(TRUE)
  /\ eligibility_cache[12] = Some(TRUE)

\* C4: once a pair (a, b) was inserted into the pair cache, no later
\* movement event with cursor handle a and foreground handle b raises.
C4_PairedNeverRaisesAgain ==
  \A p \in paired_ever :
    (ev.kind = "move" /\ ev.cursor = p[1] /\ ev.fg = p[2]) => raised = <<>>

\* what holds of the pair cache: a movement event whose cursor root a is
\* mapped to the foreground handle b by the pair cache (the pair was
\* inserted in the current cache generation) raises nothing.
PairedSkipsWithinGeneration ==
  [][(/\ ev'.kind = "move"
      /\ ev'.root # None
      /\ hwnd_pair_cache[Unwrap(ev'.root)] = Some(ev'.fg)) =>
       raised' = <<>>]_vars

\* the known pair 1 -> 12 is met while both windows are memoized eligible
PairedSkipsWitness ==
  /\ ev.kind = "move"
  /\ ev.pairHit
  /\ eligibility_cache[1] = Some(TRUE)
  /\ eligibility_cache[12] = Some(TRUE)

\* C5: a movement event that is evaluated when the age of the caches is
\* past max_cache_age finds the four caches empty.
C5_ExpiredEventSeesEmptyCaches ==
  (ev.kind = "move" /\ ~ev.drag /\ ev.age > max_cache_age) => ev.sawEmpty

\* C6: within a cache generation no movement event runs the classifier for
\* a handle whose verdict is memoized as true, and that verdict stays true.
C6_MemoizedTrueIsTrusted ==
  [][(ev' # ev /\ ev'.kind = "move" /\ cache_age <= max_cache_age) =>
       \A h \in Handles :
         eligibility_cache[h] = Some(TRUE) =>
           /\ h \notin ev'.classified
           /\ eligibility_cache'[h] = Some(TRUE)]_vars

\* C7: no movement event raises when the class of the cursor root or of
\* the foreground window matches an entry of CLASS_IGNORELIST.
C7_IgnoredClassNeverRaised ==
  (/\ ev.kind = "move"
   /\ ev.root # None
   /\ \/ MatchesIgnoreList(winClass[Unwrap(ev.root)])
      \/ MatchesIgnoreList(winClass[ev.fg])) =>
    raised = <<>>

\* C8: a movement event raises only if the verdicts of the cursor root and
\* of the foreground handle, both read from the cache or both computed in
\* the event, are both true.
C8_RaiseNeedsBothVerdicts ==
  raised # <<>> =>
    /\ ev.source \in {"cache", "file", "style"}
    /\ ev.verdicts = <<Some(TRUE), Some(TRUE)>>

\* a raise decided from two cached verdicts
C8_Witness == raised # <<>> /\ ev.source = "cache"

\* the two windows of the event are eligible: both memoized true, or no
\* filtered style and no class of the ignore list
C9_BothEligible ==
  \/ ev.source = "cache" /\ ev.verdicts = <<Some(TRUE), Some(TRUE)>>
  \/ /\ ev.source = "style"
     /\ ev.styles = <<{}, {}>>
     /\ ~MatchesIgnoreList(winClass[Unwrap(ev.root)])
     /\ ~MatchesIgnoreList(winClass[ev.fg])

\* C9: without the hwnds file, a movement event with no drag, every query
\* answered, the cursor root not the foreground handle, no pair relation
\* between them (known or found in this event) and both windows eligible
\* raises exactly once, and raises the root of the cursor handle.
C9_EligibleMoveRaisesRoot ==
  (/\ hwnds = "None"
   /\ ev.kind = "move"
   /\ ~ev.drag
   /\ ev.cursor # NULL
   /\ ev.fg # NULL
   /\ ev.root # None
   /\ ev.clsErr = {}
   /\ Unwrap(ev.root) # ev.fg
   /\ ~ev.pairHit
   /\ ~ev.steam
   /\ C9_BothEligible) =>
    raised = <<GetAncestor(ev.cursor)>>

\* the cursor is over the child control 2: its parent 12 is raised
C9_Witness ==
  /\ hwnds = "None"
  /\ ev.cursor = 2
  /\ ev.source = "style"
  /\ raised = <<12>>

\* the decimal text of the handles of the desktop
C10_Decimal(h) == IF h = 12 THEN <<"1", "2">> ELSE IF h = 1 THEN <<"1">> ELSE <<"2">>

\* the decimal text of h occurs in the text the event read from the file
C10_InFile(h) ==
  \E i \in 1..Len(ev.file) :
    /\ i + Len(C10_Decimal(h)) - 1 <= Len(ev.file)
    /\ \A j \in 1..Len(C10_Decimal(h)) : ev.file[i + j - 1] = C10_Decimal(h)[j]

\* C10 as stated: with the file read, a handle is eligible iff its decimal
\* text occurs in the file, whatever its class.
C10_FileAloneDecides ==
  ev.source = "file" =>
    ev.verdicts = <<Some(C10_InFile(Unwrap(ev.root))), Some(C10_InFile(ev.fg))>>

\* the verdict the amended claim expects for h
C10_Expected(h) ==
  /\ C10_InFile(h)
  /\ ev.clsErr = {} => ~MatchesIgnoreList(winClass[h])

\* C10 amended: with the file read, a handle is eligible iff its decimal
\* text occurs in the file and, when the classes of both windows are known,
\* its class matches no entry of CLASS_IGNORELIST; styles play no part.
C10_FileAndIgnoreListDecide ==
  ev.source = "file" =>
    ev.verdicts = <<Some(C10_Expected(Unwrap(ev.root))), Some(C10_Expected(ev.fg))>>

\* the file "12" names both windows, and the tray under the cursor is
\* ineligible all the same
C10_Witness ==
  /\ ev.source = "file"
  /\ ev.file = <<"1", "2">>
  /\ ev.root = Some(1)
  /\ winClass[1] = TrayWnd
  /\ ev.verdicts = <<Some(FALSE), Some(TRUE)>>

\* C11: with the hwnds file configured, a movement event in which the file
\* cannot be read raises nothing, runs no classifier (neither on the file
\* nor on the styles) and writes no eligibility verdict; the loop is in
\* next_event again afterwards and handles the next movement event.
C11_UnreadableFileDropsEvent ==
  [][/\ (ev'.kind = "move" /\ ev'.fileRes = "err") =>
          /\ hwnds = "Some"
          /\ raised' = <<>>
          /\ ev'.calls = <<>>
          /\ ev'.source = "none"
          /\ ev'.classified = {}
          /\ \/ eligibility_cache' = eligibility_cache
             \/ cache_age > max_cache_age /\ AllEmpty(Locals')
     /\ (ev.kind = "move" /\ ev.fileRes = "err") => ENABLED MouseMove]_vars

\* the file is unreadable in an event over window 1, memoized eligible by
\* an earlier event, while the foreground window 12 has no verdict
C11_Witness ==
  /\ ev.kind = "move"
  /\ ev.fileRes = "err"
  /\ ev.root = Some(1)
  /\ ev.fg = 12
  /\ eligibility_cache[1] = Some(TRUE)
  /\ eligibility_cache[12] = None

\* C12: a movement event in which window_at_cursor_pos, foreground_window
\* or get_ancestor fails raises nothing and leaves the class, eligibility,
\* root and pair caches as they were (the clear of an expired generation at
\* the top of the next iteration apart).
C12_FailedQueryDropsEvent ==
  [][(/\ ev'.kind = "move"
      /\ ~ev'.drag
      /\ ev'.cursor = NULL \/ ev'.fg = NULL \/ ev'.ancErr) =>
       /\ raised' = <<>>
       /\ ev'.calls = <<>>
       /\ \/ Caches' = Caches
          \/ cache_age > max_cache_age /\ AllEmpty(Locals')]_vars

\* get_ancestor fails for the control 2 while its parent 12 and the
\* foreground window 1 are both memoized eligible
C12_Witness ==
  /\ ev.kind = "move"
  /\ ev.ancErr
  /\ ev.cursor = 2
  /\ ev.fg = 1
  /\ eligibility_cache[1] = Some(TRUE)
  /\ eligibility_cache[12] = Some(TRUE)
  /\ root_hwnd_cache[2] = None

\* no rule of the style classifier matched the i-th window of the event
\* (1: the cursor root, 2: the foreground window): no filtered style, and
\* the class on no entry of CLASS_IGNORELIST or the class step not run
C13_NoRuleMatch(i) ==
  /\ ~has_filtered_style(ev.styles[i])
  /\ \/ ev.clsErr # {}
     \/ ~MatchesIgnoreList(winClass[IF i = 1 THEN Unwrap(ev.root) ELSE ev.fg])

\* C13: without the hwnds file, a handle that no rule matches is classified
\* ineligible, and an event with such a handle raises nothing.
C13_DefaultIneligible ==
  ev.source = "style" =>
    \A i \in 1..2 :
      C13_NoRuleMatch(i) => ev.verdicts[i] = Some(FALSE) /\ raised = <<>>

\* C13 amended: without the hwnds file, a handle that no rule matches is
\* classified eligible, and an event in which no rule matches either
\* window raises the cursor root.
C13_DefaultEligible ==
  ev.source = "style" =>
    /\ \A i \in 1..2 : C13_NoRuleMatch(i) => ev.verdicts[i] = Some(TRUE)
    /\ (C13_NoRuleMatch(1) /\ C13_NoRuleMatch(2)) => raised = <<Unwrap(ev.root)>>

\* no rule matches the game 12 under the cursor nor the browser surface 1
\* in the foreground, both classes known: window 12 is raised
C13_Witness ==
  /\ ev.source = "style"
  /\ ev.styles = <<{}, {}>>
  /\ ev.root = Some(12)
  /\ ev.fg = 1
  /\ ev.clsErr = {}
  /\ winClass[12] = SDLApp
  /\ winClass[1] = Chrome
  /\ raised = <<12>>

\* C14: every raise of a handle first injects the no-op input, then asks
\* for the handle to be moved to the top of the Z-order, then transfers the
\* foreground to the handle, and its result is an error or not as the
\* transfer of the foreground failed or not.
C14_RaiseProtocol ==
  raised # <<>> =>
    /\ Len(ev.calls) = 3
    /\ ev.calls[1] = <<"SendInput">>
    /\ ev.calls[2] = <<"SetWindowPos", raised[1]>>
    /\ ev.calls[3] = <<"SetForegroundWindow", raised[1]>>
    /\ ev.raiseRes \in {"ok", "err"}

\* the four caches after an event that classified and raised, computed from
\* the caches before it and from what the event found, the result of the
\* raise left aside
C15_CachesAfter(e) ==
  LET r == Unwrap(e.root)
      f == e.fg
      known(h) == IF h \in e.clsErr THEN None ELSE Some(winClass[h])
  IN << IF e.source = "cache" THEN eligibility_cache
        ELSE [eligibility_cache EXCEPT ![r] = e.verdicts[1],
                                       ![f] = e.verdicts[2]],
        [class_cache EXCEPT ![r] = known(r), ![f] = known(f)],
        hwnd_pair_cache,
        [root_hwnd_cache EXCEPT ![e.cursor] = e.root] >>

\* the step is the handling of an event: the age stays or restarts, while
\* the passing of time moves it past max_cache_age
C15_EventStep == cache_age' = cache_age \/ cache_age' = 0

\* C15: a movement event makes at most one raise attempt, and the caches,
\* the drag flag and the age of the generation after the event are the same
\* whether the raise succeeded or failed: they are determined by the state
\* before the event and by what its queries answered.
C15_FailedRaiseChangesNothing ==
  [][(C15_EventStep /\ ev'.kind = "move" /\ raised' # <<>>) =>
       /\ Len(raised') = 1
       /\ ev'.calls = << <<"SendInput">>, <<"SetForegroundWindow", raised'[1]>> >>
       /\ ev'.raiseRes \in {"ok", "err"}
       /\ is_mouse_down' = is_mouse_down
       /\ IF cache_age > max_cache_age
          THEN AllEmpty(Locals') /\ cache_age' = 0
          ELSE Caches' = C15_CachesAfter(ev') /\ cache_age' = cache_age]_vars

\* a raise of window 1 fails; both verdicts stay in the cache
C15_Witness ==
  /\ raised = <<1>>
  /\ ev.raiseRes = "err"
  /\ eligibility_cache[1] = Some(TRUE)
  /\ eligibility_cache[12] = Some(TRUE)

\* the keys of a cache
C16_Keys(cache) == {h \in Handles : cache[h] # None}

\* C16: in every step each of the four caches keeps all its keys and the
\* age of the generation does not restart, or else the generation was past
\* max_cache_age and the step leaves all four caches empty and the age
\* restarted: entries go only by the clear of all four caches together.
C16_OnlyWholeGenerationsGo ==
  [][\/ /\ \A i \in 1..4 : C16_Keys(Caches[i]) \subseteq C16_Keys(Caches'[i])
        /\ cache_age' >= cache_age
     \/ /\ cache_age > max_cache_age
        /\ AllEmpty(Locals')
        /\ cache_age' = 0]_vars

\* the caches are empty and the age restarted right after an event that
\* cached a root, two classes and two verdicts: the clear took them all
C16_Witness ==
  /\ AllEmpty(Locals)
  /\ cache_age = 0
  /\ paired_ever # {}
  /\ ev.kind = "move"
  /\ ev.source = "style"
  /\ ev.cursor = 2
  /\ ev.clsErr = {}

\* an error met by the last event: a failed window query, a failed class
\* query, an unreadable hwnds file or a failed raise
C17_Failed ==
  /\ ev.kind = "move"
  /\ ~ev.drag
  /\ \/ ev.cursor = NULL
     \/ ev.fg = NULL
     \/ ev.ancErr
     \/ ev.clsErr # {}
     \/ ev.fileRes = "err"
     \/ ev.raiseRes = "err"

\* C17: whatever failed in an event, its handling ends with the thread
\* waiting in next_event again, where it handles whichever event comes
\* next: a movement, a press or release of the button, or any other.
C17_LoopSurvivesErrors ==
  /\ pc = "next_event"
  /\ C17_Failed =>
       /\ ENABLED MouseMove
       /\ ENABLED OtherEvent
       /\ ENABLED ButtonPress \/ ENABLED ButtonRelease

\* with the hwnds file configured, a class query and the raise both failed
\* in the last movement event, and the thread waits in next_event
C17_Witness ==
  /\ pc = "next_event"
  /\ ev.kind = "move"
  /\ ev.clsErr # {}
  /\ ev.raiseRes = "err"
  /\ hwnds = "Some"

\* C18: without the hwnds file, a movement event in which the class query
\* for the cursor root or for the foreground window fails writes no
\* eligibility verdict and raises nothing.
C18_FailedClassQueryDropsEvent ==
  (hwnds = "None" /\ ev.kind = "move" /\ ev.clsErr # {}) =>
    /\ ev.classified = {}
    /\ ev.verdicts = <<None, None>>
    /\ raised = <<>>

\* the last event got past the test of the foreground window, and the
\* classes it had of its two windows (from the class cache or from queries
\* that answered) are a browser surface under the cursor and a game in the
\* foreground
C19_SteamEvent ==
  /\ ev.kind = "move"
  /\ ev.root # None
  /\ Unwrap(ev.root) # ev.fg
  /\ ev.clsErr = {}
  /\ winClass[Unwrap(ev.root)] = Chrome
  /\ winClass[ev.fg] = SDLApp

\* C19: a movement event whose cursor root has the class
\* Chrome_RenderWidgetHostHWND and whose foreground window the class SDL_app
\* leaves the pair in the pair cache (until the generation is cleared),
\* raises nothing and neither reads nor writes an eligibility verdict, also
\* when both windows are memoized eligible.
C19_SteamPairIsIgnored ==
  C19_SteamEvent =>
    /\ ev.steam \/ ev.pairHit
    /\ \/ hwnd_pair_cache[Unwrap(ev.root)] = Some(ev.fg)
       \/ ev.age > max_cache_age /\ AllEmpty(Locals)
    /\ raised = <<>>
    /\ ev.calls = <<>>
    /\ ev.source = "none"
    /\ ev.verdicts = <<None, None>>
    /\ ev.classified = {}

\* the pair 1 -> 12 is recorded by an event that finds both windows
\* memoized eligible
C19_Witness ==
  /\ C19_SteamEvent
  /\ ev.steam
  /\ hwnd_pair_cache[1] = Some(12)
  /\ eligibility_cache[1] = Some(TRUE)
  /\ eligibility_cache[12] = Some(TRUE)

\* the i-th window of the last event (1: the cursor root, 2: the foreground
\* window) and whether the style read for it marks a tool window or a
\* window that is not to be activated
C20_Window(i) == IF i = 1 THEN Unwrap(ev.root) ELSE ev.fg
C20_Marked(i) ==
  ev.styles[i] \cap {"WS_EX_TOOLWINDOW", "WS_EX_NOACTIVATE"} # {}

\* C20: without the hwnds file, when the classifier runs in an event in
\* which the cursor root or the foreground window has the tool window or
\* the no-activate style, that window gets the verdict false, the verdict
\* is in the eligibility cache (until the generation is cleared), and the
\* event raises nothing.
C20_FilteredStyleIsIneligible ==
  (ev.kind = "move" /\ ev.source = "style") =>
    \A i \in 1..2 :
      C20_Marked(i) =>
        /\ hwnds = "None"
        /\ ev.verdicts[i] = Some(FALSE)
        /\ \/ eligibility_cache[C20_Window(i)] = Some(FALSE)
           \/ ev.age > max_cache_age /\ AllEmpty(Locals)
        /\ raised = <<>>
        /\ ev.calls = <<>>

\* the game 12 under the cursor is marked no-activate: its class is known
\* and on no list, the style alone makes it ineligible
C20_Witness ==
  /\ ev.kind = "move"
  /\ ev.source = "style"
  /\ ev.root = Some(12)
  /\ ev.fg = 1
  /\ ev.styles = <<{"WS_EX_NOACTIVATE"}, {}>>
  /\ ev.clsErr = {}
  /\ winClass[12] = SDLApp
  /\ winClass[1] = Chrome
  /\ eligibility_cache[12] = Some(FALSE)
  /\ eligibility_cache[1] = Some(TRUE)

\* the last event got as far as the decision on its two windows: a root
\* that is not the foreground window, and no pair known or found
C21_Qualifying ==
  /\ ev.kind = "move"
  /\ ev.root # None
  /\ Unwrap(ev.root) # ev.fg
  /\ ~ev.pairHit
  /\ ~ev.steam

\* C21: with the hwnds file configured, no entry of the eligibility cache
\* is ever false, so an event decides from the cache only on two verdicts
\* that are true; every other event that gets to the decision reads the
\* file and, if it can be read, evaluates both windows against it.
C21_NoFalseVerdictCached ==
  hwnds = "Some" =>
    /\ \A h \in Handles : eligibility_cache[h] # Some(FALSE)
    /\ C21_Qualifying =>
         \/ ev.source = "cache" /\ ev.verdicts = <<Some(TRUE), Some(TRUE)>>
         \/ ev.source = "none" /\ ev.fileRes = "err"
         \/ /\ ev.source = "file"
            /\ ev.fileRes = "ok"
            /\ ev.classified = {Unwrap(ev.root), ev.fg}

\* window 1 under the cursor, found ineligible by an earlier event or not
\* yet evaluated, is found absent from the file "2"; nothing is cached for
\* it, while the foreground window 12 is memoized eligible
C21_Witness ==
  /\ hwnds = "Some"
  /\ C21_Qualifying
  /\ ev.source = "file"
  /\ ev.file = <<"2">>
  /\ ev.root = Some(1)
  /\ ev.fg = 12
  /\ ev.verdicts[1] = Some(FALSE)
  /\ eligibility_cache[1] = None
  /\ eligibility_cache[12] = Some(TRUE)

====
